---- MODULE Spec2Model ----
(***************************************************************************)
(* The cellular-automaton engine of src/lib.rs: a Universe of width x      *)
(* height cells (Dead, Alive, Wood, Fire, Sand) held row-major in `cells`, *)
(* a scratch buffer `nexts`, the per-material next-state rules, the        *)
(* reverse-order tick, set_cells and the two resize operations.            *)
(*                                                                         *)
(* Buffers are sequences: the Vec element at index idx is cells[idx + 1].  *)
(*                                                                         *)
(* A u32 is written as the integer with the same 32-bit two's-complement   *)
(* bit pattern: 0 .. 2^31-1 as themselves, 2^32 - k as -k.  So 0 - 1       *)
(* wraps to -1 (the pattern 0xFFFFFFFF) and the unsigned order is U32Lt.   *)
(* The operands of + and * stay far below 2^31 within the bounds, so only  *)
(* subtraction can leave the range.  What an overflowing subtraction does  *)
(* depends on the build (overflow_checks): it panics or it wraps.          *)
(***************************************************************************)
EXTENDS Integers, Sequences, FiniteSets, TLC

VARIABLES
    width,            \* Universe.width
    height,           \* Universe.height
    cells,            \* Universe.cells
    nexts,            \* Universe.nexts
    overflow_checks,  \* the build: TRUE when arithmetic overflow panics
    status,           \* "ok", or "panicked" once a call has panicked
    op,               \* the last operation called ("new" after construction)
    arg,              \* its arguments
    pre,              \* width, height, cells and the length of nexts when the
                      \* last operation was called
    start,            \* cells after the last set_cells or resize (or construction)
    ticks,            \* number of tick() calls that returned since then
    nops,             \* number of resize and set_cells calls so far
    wrapped           \* TRUE when a u32 subtraction in the last operation overflowed

vars == <<width, height, cells, nexts, overflow_checks, status, op, arg, pre,
          start, ticks, nops, wrapped>>

\* ---------------------------------------------------------------- bounds
\* Grids built directly are at most MaxWidth wide and MaxHeight high and hold at
\* most MaxCells cells.
MaxWidth == 3
MaxHeight == 3
MaxCells == 6
\* At most MaxTicks successive ticks are followed.
MaxTicks == 3
\* set_width, set_height and the coordinates of set_cells range over 0..MaxDim;
\* set_cells is followed on grids of at most MaxCells cells.
MaxDim == 2
\* set_cells is passed at most MaxCoords coordinates.
MaxCoords == 2
\* At most MaxOps resize and set_cells calls are followed.
MaxOps == 3
\* Endless runs of ticks start from grids of at most MaxRunCells cells.
MaxRunCells == 4

\* ----------------------------------------------------------------- cells
Dead  == "Dead"
Alive == "Alive"
Wood  == "Wood"
Fire  == "Fire"
Sand  == "Sand"
Cell  == {Dead, Alive, Wood, Fire, Sand}

\* The demo constructors' grid size.
DemoWidth  == 64
DemoHeight == 64

\* ------------------------------------------------------- u32 arithmetic
\* a < b on the bit patterns read as unsigned numbers.
U32Lt(a, b) == IF (a < 0) = (b < 0) THEN a < b ELSE b < 0
U32Gt(a, b) == U32Lt(b, a)

\* a - b on u32: the wrapped difference and whether the subtraction overflowed.
u32_sub(a, b) == [value |-> a - b, overflow |-> U32Lt(a, b)]

\* The Universe as the methods see it (&self).
Self == [width |-> width, height |-> height, cells |-> cells, nexts |-> nexts]

\* The buffer of n cells that are all c.
Filled(n, c) == [i \in 1..n |-> c]

\* Vec indexing cells[idx] is bounds-checked: it panics unless idx < len.
InVec(v, idx) == idx >= 0 /\ idx < Len(v)

\* Mutant of get_index: column-major.
get_index_transposed(u, row, column) == column * u.height + row

get_index(u, row, column) == row * u.width + column

\* The (delta_row, delta_col) pairs the two loops visit, by position in the
\* arrays [height - 1, 0, 1] and [width - 1, 0, 1]; a pair is skipped when both
\* deltas are 0.
live_neighbour_count(u, row, column) ==
    LET delta_rows == <<u.height - 1, 0, 1>>
        delta_cols == <<u.width - 1, 0, 1>>
        counted == {p \in (1..3) \X (1..3) :
                      /\ ~(delta_rows[p[1]] = 0 /\ delta_cols[p[2]] = 0)
                      /\ LET neighbour_row == (row + delta_rows[p[1]]) % u.height
                             neighbour_col == (column + delta_cols[p[2]]) % u.width
                             idx == get_index(u, neighbour_row, neighbour_col)
                         IN  u.cells[idx + 1] = Alive}
    IN  Cardinality(counted)

\* Mutant of sand_can_fall: Wood counts as free too.
sand_can_fall_into_wood(u, row, column) ==
    IF \/ U32Gt(row, u.height - 1)
       \/ U32Gt(column, u.width - 1)
    THEN FALSE
    ELSE u.cells[get_index(u, row, column) + 1] \in {Dead, Fire, Wood}

\* Mutant of sand_can_fall: the last row counts as outside the grid.
sand_can_fall_stopping_short(u, row, column) ==
    IF \/ U32Gt(row + 1, u.height - 1)
       \/ U32Gt(column, u.width - 1)
    THEN FALSE
    ELSE u.cells[get_index(u, row, column) + 1] \in {Dead, Fire}

\* `row < 0` and `column < 0` are comparisons of a u32 with 0: never true.
sand_can_fall(u, row, column) ==
    IF \/ U32Lt(row, 0)
       \/ U32Gt(row, u.height - 1)
       \/ U32Lt(column, 0)
       \/ U32Gt(column, u.width - 1)
    THEN FALSE
    ELSE u.cells[get_index(u, row, column) + 1] \in {Dead, Fire}

\* Mutant of sand_state_next_tick: the grain is written below and stays where
\* it was as well.
sand_state_next_tick_leaving_grain(u, nx, row, column) ==
    IF sand_can_fall(u, row + 1, column)
    THEN [cell  |-> Sand,
          nexts |-> [nx EXCEPT ![get_index(u, row + 1, column) + 1] = Sand]]
    ELSE [cell |-> Sand, nexts |-> nx]

\* Mutant of sand_state_next_tick: the falling grain is not written below.
sand_state_next_tick_without_write(u, nx, row, column) ==
    IF sand_can_fall(u, row + 1, column)
    THEN [cell |-> Dead, nexts |-> nx]
    ELSE [cell |-> Sand, nexts |-> nx]

\* The cell returned, and the nexts buffer after the call: `nx` is nexts as it
\* stands when the Sand cell is visited.
sand_state_next_tick(u, nx, row, column) ==
    IF sand_can_fall(u, row + 1, column)
    THEN [cell  |-> Dead,
          nexts |-> [nx EXCEPT ![get_index(u, row + 1, column) + 1] = Sand]]
    ELSE [cell |-> Sand, nexts |-> nx]

\* Mutant of is_fire: only the index is checked, so that the end of one row is
\* beside the start of the next.
is_fire_by_index(u, row, column) ==
    LET idx == get_index(u, row, column)
    IN  InVec(u.cells, idx) /\ u.cells[idx + 1] = Fire

\* Mutant of is_fire: the coordinates wrap around the edges.
is_fire_wrapping(u, row, column) ==
    u.cells[get_index(u, row % u.height, column % u.width) + 1] = Fire

is_fire(u, row, column) ==
    IF \/ U32Lt(row, 0)
       \/ U32Gt(row, u.height - 1)
       \/ U32Lt(column, 0)
       \/ U32Gt(column, u.width - 1)
    THEN FALSE
    ELSE u.cells[get_index(u, row, column) + 1] = Fire

\* row - 1 and column - 1 are u32 subtractions: at row 0 or column 0 they
\* overflow.  `overflow` reports it; `value` is the result when the build wraps.
is_fire_neighbour(u, row, column) ==
    LET up   == u32_sub(row, 1)
        left == u32_sub(column, 1)
        top_fire    == is_fire(u, up.value, column)
        bottom_fire == is_fire(u, row + 1, column)
        left_fire   == is_fire(u, row, left.value)
        right_fire  == is_fire(u, row, column + 1)
    IN  [overflow |-> up.overflow \/ left.overflow,
         value    |-> top_fire \/ bottom_fire \/ left_fire \/ right_fire]

wood_state_next_tick(u, row, column) ==
    LET near == is_fire_neighbour(u, row, column)
    IN  [overflow |-> near.overflow,
         cell     |-> IF near.value THEN Fire ELSE Wood]

\* Mutant of fire_state_next_tick: Fire keeps burning.
fire_state_next_tick_burning(u, row, column) == Fire

fire_state_next_tick(u, row, column) == Dead

life_state_next_tick(u, row, column, cell) ==
    LET live_neighbours == live_neighbour_count(u, row, column)
    IN  CASE cell = Alive /\ live_neighbours < 2 -> Dead
          [] cell = Alive /\ live_neighbours \in {2, 3} -> Alive
          [] cell = Alive /\ live_neighbours > 3 -> Dead
          [] cell = Dead /\ live_neighbours = 3 -> Alive
          [] OTHER -> cell

\* The body of tick's inner loop for one (row, col).  st is the tick in
\* progress: the nexts buffer, whether it has panicked, whether a subtraction
\* has wrapped.
\* The loop also calls live_neighbour_count for every cell and drops the result
\* for all but Dead and Alive cells; the call reads only and cannot fail, so it
\* appears here only where its result is used (in life_state_next_tick).
visit(u, row, col, st) ==
    LET idx  == get_index(u, row, col)
        cell == u.cells[idx + 1]
    IN  IF ~InVec(u.cells, idx) THEN [st EXCEPT !.panic = TRUE]
        ELSE CASE cell \in {Dead, Alive} ->
                    [st EXCEPT !.nexts[idx + 1] =
                                   life_state_next_tick(u, row, col, cell)]
               [] cell = Wood ->
                    LET w == wood_state_next_tick(u, row, col)
                    IN  IF w.overflow /\ overflow_checks
                        THEN [st EXCEPT !.panic = TRUE, !.wrapped = TRUE]
                        ELSE [nexts   |-> [st.nexts EXCEPT ![idx + 1] = w.cell],
                              panic   |-> FALSE,
                              wrapped |-> st.wrapped \/ w.overflow]
               [] cell = Fire ->
                    [st EXCEPT !.nexts[idx + 1] = fire_state_next_tick(u, row, col)]
               [] cell = Sand ->
                    LET s == sand_state_next_tick(u, st.nexts, row, col)
                    IN  [st EXCEPT !.nexts = [s.nexts EXCEPT ![idx + 1] = s.cell]]

\* for col in (0..width).rev()
RECURSIVE scan_cols(_, _, _, _)
scan_cols(u, row, col, st) ==
    IF col < 0 \/ st.panic THEN st
    ELSE scan_cols(u, row, col - 1, visit(u, row, col, st))

\* Mutant of scan_rows: the rows are visited first to last.
RECURSIVE scan_rows_forward(_, _, _)
scan_rows_forward(u, row, st) ==
    IF row < 0 \/ st.panic THEN st
    ELSE scan_rows_forward(u, row - 1,
                           scan_cols(u, (u.height - 1) - row, u.width - 1, st))

\* for row in (0..height).rev()
RECURSIVE scan_rows(_, _, _)
scan_rows(u, row, st) ==
    IF row < 0 \/ st.panic THEN st
    ELSE scan_rows(u, row - 1, scan_cols(u, row, u.width - 1, st))

\* Mutant of tick: nexts is not reset to a copy of cells before the scan.
tick_without_clone(u) ==
    LET st == scan_rows(u, u.height - 1,
                        [nexts |-> u.nexts, panic |-> FALSE, wrapped |-> FALSE])
    IN  [cells   |-> IF st.panic THEN u.cells ELSE st.nexts,
         nexts   |-> st.nexts,
         panic   |-> st.panic,
         wrapped |-> st.wrapped]

\* tick(): cells and nexts when the call ends, and how it ended.  A panic leaves
\* cells as they were and nexts as far as the scan got.
tick(u) ==
    LET st == scan_rows(u, u.height - 1,
                        [nexts |-> u.cells, panic |-> FALSE, wrapped |-> FALSE])
    IN  [cells   |-> IF st.panic THEN u.cells ELSE st.nexts,
         nexts   |-> st.nexts,
         panic   |-> st.panic,
         wrapped |-> st.wrapped]

\* set_cells: the loop over the coordinates; the write cells[idx] panics when
\* idx is not an index of the buffer, after the writes before it were made.
RECURSIVE set_cells(_, _, _, _)
set_cells(u, coords, cell, k) ==
    IF k > Len(coords) THEN [cells |-> u.cells, panic |-> FALSE]
    ELSE LET idx == get_index(u, coords[k][1], coords[k][2])
         IN  IF ~InVec(u.cells, idx) THEN [cells |-> u.cells, panic |-> TRUE]
             ELSE set_cells([u EXCEPT !.cells[idx + 1] = cell], coords, cell, k + 1)

\* Mutant of set_width: the cells common to the old and the new grid are kept.
set_width_keeping(u, w) ==
    [u EXCEPT !.width = w,
              !.cells = [i \in 1..(w * u.height) |->
                           IF (i - 1) % w < u.width
                           THEN u.cells[((i - 1) \div w) * u.width + ((i - 1) % w) + 1]
                           ELSE Dead]]

set_width(u, w)  == [u EXCEPT !.width = w,  !.cells = Filled(w * u.height, Dead)]
set_height(u, h) == [u EXCEPT !.height = h, !.cells = Filled(u.width * h, Dead)]

\* The three constructors: cell i of the buffer, i = 0 .. width*height - 1.
life_demo ==
    [width |-> DemoWidth, height |-> DemoHeight,
     cells |-> [j \in 1..(DemoWidth * DemoHeight) |->
                  IF (j - 1) % 2 = 0 \/ (j - 1) % 7 = 0 THEN Alive ELSE Dead],
     nexts |-> Filled(DemoWidth * DemoHeight, Dead)]

fire_demo ==
    [width |-> DemoWidth, height |-> DemoHeight,
     cells |-> [j \in 1..(DemoWidth * DemoHeight) |->
                  IF j - 1 = 0 THEN Fire ELSE Wood],
     nexts |-> Filled(DemoWidth * DemoHeight, Dead)]

sand_demo ==
    [width |-> DemoWidth, height |-> DemoHeight,
     cells |-> [j \in 1..(DemoWidth * DemoHeight) |->
                  IF (j - 1) % 3 = 0 THEN Sand ELSE Dead],
     nexts |-> Filled(DemoWidth * DemoHeight, Dead)]

\* ------------------------------------------------------------ the machine
Snapshot ==
    [width |-> width, height |-> height, cells |-> cells, scratch |-> Len(nexts)]

\* A freshly constructed Universe u, under either build.
Constructed(u) ==
    /\ width = u.width
    /\ height = u.height
    /\ cells = u.cells
    /\ nexts = u.nexts
    /\ overflow_checks \in BOOLEAN
    /\ status = "ok"
    /\ op = "new"
    /\ arg = <<>>
    /\ pre = [width |-> u.width, height |-> u.height, cells |-> u.cells,
              scratch |-> Len(u.nexts)]
    /\ start = u.cells
    /\ ticks = 0
    /\ nops = 0
    /\ wrapped = FALSE

Init == \E u \in {life_demo, fire_demo, sand_demo} : Constructed(u)

Tick ==
    /\ status = "ok"
    /\ ticks < MaxTicks
    /\ \E r \in {tick(Self)} :
           /\ cells' = r.cells
           /\ nexts' = r.nexts
           /\ status' = IF r.panic THEN "panicked" ELSE "ok"
           /\ wrapped' = r.wrapped
           /\ ticks' = IF r.panic THEN ticks ELSE ticks + 1
    /\ op' = "tick"
    /\ arg' = <<>>
    /\ pre' = Snapshot
    /\ UNCHANGED <<width, height, overflow_checks, start, nops>>

\* tick() called again and again, for the claims about what repeated ticks reach
\* in the end: as Tick, but never refused; the count of ticks stops at MaxTicks.
TickOn ==
    /\ status = "ok"
    /\ \E r \in {tick(Self)} :
           /\ cells' = r.cells
           /\ nexts' = r.nexts
           /\ status' = IF r.panic THEN "panicked" ELSE "ok"
           /\ wrapped' = r.wrapped
           /\ ticks' = IF r.panic \/ ticks >= MaxTicks THEN ticks ELSE ticks + 1
    /\ op' = "tick"
    /\ arg' = <<>>
    /\ pre' = Snapshot
    /\ UNCHANGED <<width, height, overflow_checks, start, nops>>

\* The coordinate lists passed to set_cells.
Coords == UNION {[1..n -> (0..MaxDim) \X (0..MaxDim)] : n \in 1..MaxCoords}

SetCells ==
    /\ status = "ok"
    /\ nops < MaxOps
    /\ Len(cells) <= MaxCells
    /\ \E coords \in Coords, cell \in Cell :
          \E r \in {set_cells(Self, coords, cell, 1)} :
              /\ cells' = r.cells
              /\ status' = IF r.panic THEN "panicked" ELSE "ok"
              /\ arg' = <<coords, cell>>
              /\ start' = r.cells
    /\ op' = "set_cells"
    /\ pre' = Snapshot
    /\ ticks' = 0
    /\ nops' = nops + 1
    /\ wrapped' = FALSE
    /\ UNCHANGED <<width, height, nexts, overflow_checks>>

SetWidth ==
    /\ status = "ok"
    /\ nops < MaxOps
    /\ \E w \in 0..MaxDim :
          LET r == set_width(Self, w)
          IN  /\ width' = r.width
              /\ cells' = r.cells
              /\ start' = r.cells
              /\ arg' = <<w>>
    /\ op' = "set_width"
    /\ pre' = Snapshot
    /\ status' = "ok"
    /\ ticks' = 0
    /\ nops' = nops + 1
    /\ wrapped' = FALSE
    /\ UNCHANGED <<height, nexts, overflow_checks>>

SetHeight ==
    /\ status = "ok"
    /\ nops < MaxOps
    /\ \E h \in 0..MaxDim :
          LET r == set_height(Self, h)
          IN  /\ height' = r.height
              /\ cells' = r.cells
              /\ start' = r.cells
              /\ arg' = <<h>>
    /\ op' = "set_height"
    /\ pre' = Snapshot
    /\ status' = "ok"
    /\ ticks' = 0
    /\ nops' = nops + 1
    /\ wrapped' = FALSE
    /\ UNCHANGED <<width, nexts, overflow_checks>>

\* The accessors take &self and return a field (get_cells and cells return the
\* buffer as a slice and as a pointer): what they leave behind.
get_cells(u) == u
width_accessor(u) == u
height_accessor(u) == u
cells_accessor(u) == u

\* A call of the accessor `name`, which leaves the Universe as `after`.
Read(name, after) ==
    /\ status = "ok"
    /\ width' = after.width
    /\ height' = after.height
    /\ cells' = after.cells
    /\ nexts' = after.nexts
    /\ op' = name
    /\ arg' = <<>>
    /\ pre' = Snapshot
    /\ wrapped' = FALSE
    /\ UNCHANGED <<overflow_checks, status, start, ticks, nops>>

GetCells == Read("get_cells", get_cells(Self))
Width    == Read("width", width_accessor(Self))
Height   == Read("height", height_accessor(Self))
CellsPtr == Read("cells", cells_accessor(Self))

Accessors == {"get_cells", "width", "height", "cells"}

Next ==
    \/ Tick
    \/ SetCells
    \/ SetWidth
    \/ SetHeight
    \/ GetCells
    \/ Width
    \/ Height
    \/ CellsPtr

Spec == Init /\ [][Next]_vars

\* A second machine for the claims about tick alone: the Universe starts as any
\* grid of at most MaxCells cells (each is reached from a constructor by
\* set_width, set_height and set_cells) and is then only ticked.
Dims == {d \in (0..MaxWidth) \X (0..MaxHeight) : d[1] * d[2] <= MaxCells}

InitGrid ==
    \E d \in Dims : \E c \in [1..(d[1] * d[2]) -> Cell] :
        Constructed([width |-> d[1], height |-> d[2], cells |-> c,
                     nexts |-> Filled(d[1] * d[2], Dead)])

NextTick == Tick

SpecTick == InitGrid /\ [][NextTick]_vars

\* A third machine for the claims about resizing alone: any grid of at most
\* MaxCells cells, then only set_width and set_height.
NextResize == SetWidth \/ SetHeight

SpecResize == InitGrid /\ [][NextResize]_vars

\* A fourth machine for the scratch buffer: any grid of at most MaxCells cells
\* whose nexts is left over from a grid of another size (the resizes leave it
\* as it is): empty, or one cell longer than the grid.  Then it is only ticked.
StaleNexts(n) == {Filled(0, Dead), Filled(n + 1, Fire)}

InitScratch ==
    \E d \in Dims : \E c \in [1..(d[1] * d[2]) -> Cell] :
        \E n \in StaleNexts(d[1] * d[2]) :
            Constructed([width |-> d[1], height |-> d[2], cells |-> c, nexts |-> n])

NextScratch == Tick

SpecScratch == InitScratch /\ [][NextScratch]_vars

\* ------------------------------------------------ vocabulary of the claims
\* The cell at (r, c) of a row-major buffer of a grid w wide.
At(buf, w, r, c) == buf[r * w + c + 1]
Rows == 0..(height - 1)
Cols == 0..(width - 1)

\* A fifth machine for the claims about where repeated ticks lead: any grid of
\* at most MaxRunCells cells, ticked for ever.  The caller keeps calling tick()
\* as long as the last call returned (weak fairness of the only action); after
\* a panic there is nothing left to call.
DimsRun == {d \in (0..MaxWidth) \X (0..MaxHeight) : d[1] * d[2] <= MaxRunCells}

InitRun ==
    \E d \in DimsRun : \E c \in [1..(d[1] * d[2]) -> Cell] :
        Constructed([width |-> d[1], height |-> d[2], cells |-> c,
                     nexts |-> Filled(d[1] * d[2], Dead)])

NextRun == TickOn

SpecRun == InitRun /\ [][NextRun]_vars /\ WF_vars(NextRun)

\* The last operation was a tick() and it returned.
Ticked == op = "tick" /\ status = "ok"

\* The eight offsets around a cell.
Offsets == ({-1, 0, 1} \X {-1, 0, 1}) \ {<<0, 0>>}

\* How many of the eight offsets from (r, c), wrapped around the edges, lead to
\* an Alive cell of buf.
AliveAround(buf, r, c) ==
    Cardinality({d \in Offsets :
        At(buf, width, (r + d[1]) % height, (c + d[2]) % width) = Alive})

\* Conway's rule for a cell with n live neighbours.
LifeRule(cell, n) ==
    IF cell = Alive THEN (IF n \in {2, 3} THEN Alive ELSE Dead)
    ELSE (IF n = 3 THEN Alive ELSE Dead)

\* Sand lies directly above (r, c) in buf: row r - 1 of the same column.
SandAbove(buf, r, c) == r >= 1 /\ At(buf, width, r - 1, c) = Sand

\* C1: after a tick() that returns, every cell that was Dead or Alive and had no
\* Sand directly above it holds Conway's rule of its old value and of the number
\* of the eight wrapped offsets that led to an Alive cell before the tick.
C1_LifeRuleOverOffsets ==
    Ticked =>
        \A r \in Rows, c \in Cols :
            LET old == At(pre.cells, width, r, c)
            IN  (old \in {Dead, Alive} /\ ~SandAbove(pre.cells, r, c)) =>
                    At(cells, width, r, c) =
                        LifeRule(old, AliveAround(pre.cells, r, c))

\* C1 on the grids that are at least 2 wide and 2 high, where no delta of
\* live_neighbour_count other than the middle one is 0.
C1_LifeRuleOnGridsAtLeastTwoWideAndHigh ==
    (width >= 2 /\ height >= 2) => C1_LifeRuleOverOffsets

\* C2: after a tick() that returns, a Sand cell whose cell below was in the grid
\* and Dead or Fire is Dead and the cell below is Sand; every other Sand cell
\* is still Sand.
C2_SandFalls ==
    Ticked =>
        \A r \in Rows, c \in Cols :
            At(pre.cells, width, r, c) = Sand =>
                IF r + 1 < height /\ At(pre.cells, width, r + 1, c) \in {Dead, Fire}
                THEN /\ At(cells, width, r, c) = Dead
                     /\ At(cells, width, r + 1, c) = Sand
                ELSE At(cells, width, r, c) = Sand

\* A grain has fallen into a Dead cell that had exactly 3 live neighbours, and
\* another grain has stayed on the last row.
C2_Witness ==
    /\ Ticked
    /\ \E r \in Rows, c \in Cols :
          /\ r + 1 < height
          /\ At(pre.cells, width, r, c) = Sand
          /\ At(pre.cells, width, r + 1, c) = Dead
          /\ AliveAround(pre.cells, r + 1, c) = 3
          /\ At(cells, width, r + 1, c) = Sand
          /\ At(cells, width, r, c) = Dead
    /\ \E c \in Cols :
          /\ At(pre.cells, width, height - 1, c) = Sand
          /\ At(cells, width, height - 1, c) = Sand

\* The buffer of the current grid whose only cell that is not Dead is a Sand at
\* (r, c).
OneGrain(r, c) ==
    [i \in 1..(width * height) |-> IF i = r * width + c + 1 THEN Sand ELSE Dead]

Min(a, b) == IF a <= b THEN a ELSE b

\* C3: k ticks after a grid whose only cell that is not Dead was a Sand at
\* (0, c), the only cell that is not Dead is a Sand at (min(k, height - 1), c).
C3_GrainFallsOneRowPerTick ==
    status = "ok" =>
        \A c \in Cols :
            (height >= 1 /\ start = OneGrain(0, c)) =>
                cells = OneGrain(Min(ticks, height - 1), c)

\* The grain has reached the last row of a grid 3 high and has stayed there for
\* a tick.
C3_Witness ==
    /\ status = "ok"
    /\ height = 3
    /\ ticks = 3
    /\ \E c \in Cols : start = OneGrain(0, c) /\ cells = OneGrain(2, c)

\* (r, c) held Sand and the cell below it held Wood when the ticks began.
SandOnWoodAtStart(r, c) ==
    /\ r + 1 < height
    /\ At(start, width, r, c) = Sand
    /\ At(start, width, r + 1, c) = Wood

\* C4 as stated: a Sand cell that had Wood below it is Sand after every number
\* of ticks.
C4_SandOnWoodNeverFalls ==
    status = "ok" =>
        \A r \in Rows, c \in Cols :
            SandOnWoodAtStart(r, c) => At(cells, width, r, c) = Sand

\* C4, amended: a Sand cell that had Wood below it is Sand after any number of
\* ticks for as long as the cell below is still Wood or burning (Fire), and
\* after every number of ticks, with the Wood still below it, when the grid held
\* no Fire.
C4_SandOnWoodWhileWoodLasts ==
    status = "ok" =>
        \A r \in Rows, c \in Cols :
            SandOnWoodAtStart(r, c) =>
                /\ At(cells, width, r + 1, c) \in {Wood, Fire} =>
                       At(cells, width, r, c) = Sand
                /\ (\A i \in 1..Len(start) : start[i] # Fire) =>
                       /\ At(cells, width, r, c) = Sand
                       /\ At(cells, width, r + 1, c) = Wood

\* Two ticks on, the Wood below a grain has only now caught fire, and the grain
\* still lies on it.
C4_Witness ==
    /\ status = "ok"
    /\ ticks = 2
    /\ \E r \in Rows, c \in Cols :
          /\ SandOnWoodAtStart(r, c)
          /\ At(pre.cells, width, r + 1, c) = Wood
          /\ At(cells, width, r + 1, c) = Fire
          /\ At(cells, width, r, c) = Sand

\* One of the cells above, below, left and right of (r, c) that lie inside the
\* grid holds Fire in buf.
FireBeside(buf, r, c) ==
    \E n \in {<<r - 1, c>>, <<r + 1, c>>, <<r, c - 1>>, <<r, c + 1>>} :
        /\ n[1] \in Rows
        /\ n[2] \in Cols
        /\ At(buf, width, n[1], n[2]) = Fire

\* C5: after a tick() that returns, a cell that was Wood is Fire if one of its
\* four neighbours inside the grid was Fire, and Wood otherwise; edges do not
\* wrap and the end of one row is not beside the start of the next.
C5_WoodIgnitesFromGridNeighbours ==
    Ticked =>
        \A r \in Rows, c \in Cols :
            At(pre.cells, width, r, c) = Wood =>
                At(cells, width, r, c) =
                    (IF FireBeside(pre.cells, r, c) THEN Fire ELSE Wood)

\* In a grid 3 wide and 2 high: the Wood at (0, 0) stayed Wood with Fire on the
\* opposite edge (0, 2), the Wood at (1, 0) stayed Wood with that Fire just
\* before it in row-major order, and the Wood at (1, 2) caught the Fire above it.
C5_Witness ==
    /\ Ticked
    /\ width = 3
    /\ height = 2
    /\ At(pre.cells, width, 0, 0) = Wood
    /\ At(pre.cells, width, 0, 1) # Fire
    /\ At(pre.cells, width, 0, 2) = Fire
    /\ At(pre.cells, width, 1, 0) = Wood
    /\ At(pre.cells, width, 1, 1) # Fire
    /\ At(pre.cells, width, 1, 2) = Wood
    /\ At(cells, width, 0, 0) = Wood
    /\ At(cells, width, 1, 0) = Wood
    /\ At(cells, width, 1, 2) = Fire

\* C6 as stated: after a tick() that returns, every cell that was Fire is Dead.
C6_FireBecomesDead ==
    Ticked =>
        \A r \in Rows, c \in Cols :
            At(pre.cells, width, r, c) = Fire => At(cells, width, r, c) = Dead

\* C6, amended: after a tick() that returns, a cell that was Fire is Sand when
\* Sand lay directly above it, and Dead otherwise; it is never still Fire.
C6_FireBecomesDeadOrSand ==
    Ticked =>
        \A r \in Rows, c \in Cols :
            At(pre.cells, width, r, c) = Fire =>
                At(cells, width, r, c) =
                    (IF SandAbove(pre.cells, r, c) THEN Sand ELSE Dead)

\* One Fire cell has gone out, and a grain of Sand has fallen into another.
C6_Witness ==
    /\ Ticked
    /\ \E r \in Rows, c \in Cols :
          /\ At(pre.cells, width, r, c) = Fire
          /\ At(cells, width, r, c) = Dead
    /\ \E r \in Rows, c \in Cols :
          /\ At(pre.cells, width, r, c) = Fire
          /\ SandAbove(pre.cells, r, c)
          /\ At(cells, width, r, c) = Sand

\* The single row of n cells with k Dead cells, then one Fire, then Wood.
FireFront(n, k) ==
    [i \in 1..n |-> IF i <= k THEN Dead ELSE IF i = k + 1 THEN Fire ELSE Wood]

\* C7: k ticks (1 <= k <= N - 1) after a single row of N cells that was Fire at
\* cell 0 and Wood elsewhere, cell k is Fire, the cells before it are Dead and
\* the cells after it are Wood.
C7_FireFrontAdvancesOneCellPerTick ==
    (/\ status = "ok"
     /\ height = 1
     /\ start = FireFront(width, 0)
     /\ ticks >= 1
     /\ ticks <= width - 1) =>
        cells = FireFront(width, ticks)

\* The front has reached the third cell of a row of three after two ticks.
C7_Witness ==
    /\ status = "ok"
    /\ height = 1
    /\ width = 3
    /\ start = <<Fire, Wood, Wood>>
    /\ ticks = 2
    /\ cells = <<Dead, Dead, Fire>>

\* The coordinates of the last set_cells call, and whether one of them lies
\* outside the grid.
PassedCoords == arg[1]
OutsideGrid(p) == p[1] >= pre.height \/ p[2] >= pre.width

\* C8: a set_cells call that is passed a coordinate with row >= height or
\* column >= width fails and leaves the cells as they were; a call whose
\* coordinates all lie inside the grid succeeds.
C8_SetCellsRejectsOutOfBounds ==
    op = "set_cells" =>
        IF \E k \in 1..Len(PassedCoords) : OutsideGrid(PassedCoords[k])
        THEN status = "panicked" /\ cells = pre.cells
        ELSE status = "ok"

\* A set_cells call that was passed column = width on a 2 x 2 grid has returned
\* and has set the first cell of the next row.
C8_SilentWrite ==
    /\ op = "set_cells"
    /\ status = "ok"
    /\ pre.width = 2
    /\ pre.height = 2
    /\ arg = <<(<<(<<0, 2>>)>>), Alive>>
    /\ cells = <<Dead, Dead, Alive, Dead>>

\* C9: after set_width(w) or set_height(h) the changed dimension is the one
\* passed, the other is as before, the buffer holds width * height cells and
\* every one of them is Dead.
C9_ResizeResetsEveryCell ==
    op \in {"set_width", "set_height"} =>
        /\ op = "set_width" => (width = arg[1] /\ height = pre.height)
        /\ op = "set_height" => (height = arg[1] /\ width = pre.width)
        /\ Len(cells) = width * height
        /\ \A i \in 1..Len(cells) : cells[i] = Dead

\* A grid whose cell (0, 0) was not Dead has been made wider or narrower, and
\* the new grid still has a cell (0, 0).
C9_Witness ==
    /\ op = "set_width"
    /\ pre.width >= 1
    /\ pre.height >= 1
    /\ pre.cells[1] # Dead
    /\ width >= 1
    /\ width # pre.width
    /\ cells[1] = Dead

\* C10: between calls both buffers hold width * height cells.
C10_BuffersHaveGridSize ==
    /\ Len(cells) = width * height
    /\ Len(nexts) = width * height

\* C11: in every state the grid is at least 1 wide and 1 high.
C11_DimensionsArePositive == width >= 1 /\ height >= 1

\* C12: a tick() called on a grid at least 1 wide and 1 high returns, and leaves
\* width * height cells that each hold one of the five values.
C12_TickIsTotal ==
    (op = "tick" /\ pre.width >= 1 /\ pre.height >= 1) =>
        /\ status = "ok"
        /\ Len(cells) = width * height
        /\ \A i \in 1..Len(cells) : cells[i] \in Cell

\* C12 in the build whose arithmetic wraps.
C12_TickIsTotalWhenArithmeticWraps == ~overflow_checks => C12_TickIsTotal

\* The buffer buf of a grid w wide with the cells at the coordinates ps set to v.
WithCells(buf, w, ps, v) ==
    [i \in 1..Len(buf) |->
        IF \E k \in 1..Len(ps) : i = ps[k][1] * w + ps[k][2] + 1 THEN v ELSE buf[i]]

FreshTwin ==
    [width |-> pre.width, height |-> pre.height, cells |-> pre.cells,
     nexts |-> Filled(Len(pre.cells), Dead)]

\* C14: whatever nexts held before a tick(), the tick ends as it ends on a
\* Universe of the same width, height and cells whose nexts is freshly filled
\* with Dead: the same cells, and a panic in the one if and only if in the other.
C14_TickIgnoresScratchBuffer ==
    op = "tick" =>
        \A twin \in {tick(FreshTwin)} :
            /\ cells = twin.cells
            /\ (status = "panicked") = twin.panic

\* A tick has returned on a 2 x 2 grid without Dead cells whose nexts was
\* empty when the tick was called, and has changed the grid.
C14_Witness ==
    /\ Ticked
    /\ width = 2
    /\ height = 2
    /\ pre.scratch = 0
    /\ \A i \in 1..4 : pre.cells[i] # Dead
    /\ cells # pre.cells
    /\ Len(nexts) = 4

\* The distance between a and b on a ring of n positions.
RingDistance(a, b, n) == Min(IF a >= b THEN a - b ELSE b - a,
                             n - (IF a >= b THEN a - b ELSE b - a))

\* The distinct cells other than (r, c) at toroidal distance at most 1 from it
\* in both coordinates.
NeighbourCells(r, c) ==
    {q \in Rows \X Cols :
        /\ q # <<r, c>>
        /\ RingDistance(r, q[1], height) <= 1
        /\ RingDistance(c, q[2], width) <= 1}

\* C15: on every grid with width >= 1 and height >= 1, for every cell (row, col),
\* live_neighbour_count(row, col) is the number of distinct cells other than
\* (row, col) at toroidal distance at most 1 in both coordinates that are Alive:
\* the cell itself is not counted and no cell is counted twice.
C15_CountsDistinctOtherCells ==
    (status = "ok" /\ width >= 1 /\ height >= 1) =>
        \A r \in Rows : \A c \in Cols :
            live_neighbour_count(Self, r, c) =
                Cardinality({q \in NeighbourCells(r, c) :
                                At(cells, width, q[1], q[2]) = Alive})

\* The number of Sand cells of buf, w wide, in column c.
SandInColumn(buf, w, c) ==
    Cardinality({i \in 1..Len(buf) : (i - 1) % w = c /\ buf[i] = Sand})

\* The number of Sand cells of buf.
SandCount(buf) == Cardinality({i \in 1..Len(buf) : buf[i] = Sand})

\* C16: a tick() leaves the number of Sand cells of the grid, and the number of
\* Sand cells of each column, as they were before it: no grain is duplicated
\* and none is lost.
C16_SandIsConserved ==
    op = "tick" =>
        /\ SandCount(cells) = SandCount(pre.cells)
        /\ \A c \in Cols :
               SandInColumn(cells, width, c) = SandInColumn(pre.cells, width, c)

\* A tick has returned on a grid 3 high whose column 0 held two grains above a
\* Fire cell: the lower grain fell into the Fire cell, the upper one stayed.
C16_Witness ==
    /\ Ticked
    /\ height = 3
    /\ width >= 1
    /\ At(pre.cells, width, 0, 0) = Sand
    /\ At(pre.cells, width, 1, 0) = Sand
    /\ At(pre.cells, width, 2, 0) = Fire
    /\ At(cells, width, 0, 0) = Sand
    /\ At(cells, width, 1, 0) = Dead
    /\ At(cells, width, 2, 0) = Sand

\* C17: during a tick() on a grid with positive dimensions no u32 coordinate
\* computation leaves 0..2^32-1: row - 1 and column - 1 for a Wood cell in row 0
\* or column 0 do not underflow.
C17_NoCoordinateLeavesU32 ==
    (op = "tick" /\ pre.width >= 1 /\ pre.height >= 1) => ~wrapped

\* Where the subtraction overflows: the grid before the tick held Wood in row 0
\* or in column 0 (whichever build, whether or not the tick returned).
C17_UnderflowAtWoodOnTopOrLeftEdge ==
    op = "tick" =>
        (wrapped =>
            \E r \in 0..(pre.height - 1) : \E c \in 0..(pre.width - 1) :
                /\ r = 0 \/ c = 0
                /\ At(pre.cells, pre.width, r, c) = Wood)

NoFire == \A i \in 1..Len(cells) : cells[i] # Fire

\* C18: under repeated tick() calls from any grid, a state with no Fire cell is
\* reached in the end and no Fire cell appears after it.
C18_FireBurnsOut == <>[]NoFire

\* The same in builds whose arithmetic wraps, where every tick returns.
C18_FireBurnsOutWhenArithmeticWraps == <>[](overflow_checks \/ NoFire)

\* Along the way a cell is Wood after a tick only if it was Wood before it (so
\* the number of Wood cells never increases), and a cell is Fire after a tick
\* that returns only if it was Wood before it.
C18_WoodNeverGrows ==
    op = "tick" =>
        \A i \in 1..Len(cells) :
            /\ cells[i] = Wood => pre.cells[i] = Wood
            /\ (status = "ok" /\ cells[i] = Fire) => pre.cells[i] = Wood

SandAndDeadOnly(buf) == \A i \in 1..Len(buf) : buf[i] \in {Sand, Dead}

\* tick() leaves the grid unchanged, and every Sand cell is in the last row or
\* has Sand directly below it.
Settled ==
    /\ status = "ok"
    /\ tick(Self).cells = cells
    /\ \A r \in Rows : \A c \in Cols :
           At(cells, width, r, c) = Sand =>
               (r = height - 1 \/ At(cells, width, r + 1, c) = Sand)

\* C19: from a grid of Sand and Dead cells only, repeated tick() calls reach in
\* the end a grid that tick() leaves unchanged and in which every Sand cell is
\* in the last row or has Sand directly below it; every grid on the way holds
\* Sand and Dead cells only.
C19_SandSettles ==
    /\ [](SandAndDeadOnly(start) => SandAndDeadOnly(cells))
    /\ <>[](SandAndDeadOnly(start) => Settled)

\* Two ticks after a grid 3 high with one grain in row 0 of column 0 above two
\* Dead cells, the grain lies in the last row and the grid is settled.
C19_Witness ==
    /\ Ticked
    /\ ticks = 2
    /\ height = 3
    /\ width >= 1
    /\ SandAndDeadOnly(start)
    /\ At(start, width, 0, 0) = Sand
    /\ At(start, width, 1, 0) = Dead
    /\ At(start, width, 2, 0) = Dead
    /\ At(cells, width, 2, 0) = Sand
    /\ Settled
====
